---- MODULE Spec2Model ----
(***************************************************************************)
(* Model of digitalmarketplace.deploy: the Client orchestrator of aws.py   *)
(* (bootstrap, create_version, deploy_to_branch_environment,               *)
(* terminate_branch_environment, deploy), its S3Client and BeanstalkClient *)
(* wrappers, and the command surface of cli.py.                            *)
(*                                                                         *)
(* The program is single threaded: one operation runs at a time, and each  *)
(* external round trip (boto S3, boto Beanstalk, the git packaging module) *)
(* is one step.  The providers are the environment: their durable state    *)
(* (buckets, applications, versions, environments) persists between        *)
(* operations, and every call either succeeds or raises an exception.      *)
(***************************************************************************)
EXTENDS Naturals, Sequences, FiniteSets, TLC

\* ------------------------------------------------------------------ bounds

\* Number of operations (Client method calls or command lines) in one behaviour.
MaxOps == 3

\* ------------------------------------------------------------------ inputs

\* git.get_application_name(): the application identities of the runs.
AppNames == {"demo-app", "digitalmarketplace-api"}

\* --region values; cli.py defaults to eu-west-1.
Regions == {"eu-west-1", "us-east-1"}

\* Branch names given to the branch-environment commands.
Branches == {"feature-x", "fix-1"}

\* Version labels given to create-version and deploy.
VersionLabels == {"v1", "initial"}

\* Content hashes the packaging step reports.
Shas == {"a1b2c3d", "e4f5a6b"}

\* ------------------------------------------------------------- exceptions

None == "None"

NoError == [cls |-> None, code |-> "", message |-> ""]

\* Python / boto exception classes, each with its direct base class.
\* SomeException is the class aws.py defines; the others come from boto and
\* the standard library.
BaseClass ==
  [c \in {"SomeException", "S3CreateError", "S3ResponseError", "BotoServerError",
          "StandardError", "EnvironmentError", "AttributeError", "Exception"} |->
     CASE c = "SomeException"   -> "Exception"
       [] c = "S3CreateError"   -> "BotoServerError"
       [] c = "S3ResponseError" -> "BotoServerError"
       [] c = "BotoServerError" -> "StandardError"
       [] c = "StandardError"   -> "Exception"
       [] c = "EnvironmentError" -> "StandardError"
       [] c = "AttributeError"  -> "StandardError"
       [] c = "Exception"       -> None]

RECURSIVE IsInstance(_, _)
\* isinstance(e, handler) for an exception of class cls.
IsInstance(cls, handler) ==
  IF cls = None THEN FALSE
  ELSE IF cls = handler THEN TRUE
  ELSE IsInstance(BaseClass[cls], handler)

\* What the providers can raise.
BucketAlreadyOwnedByYou ==
  [cls |-> "S3CreateError", code |-> "BucketAlreadyOwnedByYou",
   message |-> "Your previous request to create the named bucket succeeded and you already own it."]
BucketAlreadyExists ==
  [cls |-> "S3CreateError", code |-> "BucketAlreadyExists",
   message |-> "The requested bucket name is not available."]
NoSuchBucket ==
  [cls |-> "S3ResponseError", code |-> "NoSuchBucket",
   message |-> "The specified bucket does not exist"]
EnvironmentAlreadyExists ==
  [cls |-> "BotoServerError", code |-> "InvalidParameterValue",
   message |-> "Environment already exists."]
ApplicationAlreadyExists ==
  [cls |-> "BotoServerError", code |-> "InvalidParameterValue",
   message |-> "Application already exists."]
VersionAlreadyExists ==
  [cls |-> "BotoServerError", code |-> "InvalidParameterValue",
   message |-> "Application Version already exists."]
NoSuchEnvironment ==
  [cls |-> "BotoServerError", code |-> "InvalidParameterValue",
   message |-> "No Environment found for EnvironmentName."]
ProviderError ==
  [cls |-> "BotoServerError", code |-> "Throttling",
   message |-> "Rate exceeded"]
PackagingError ==
  [cls |-> "EnvironmentError", code |-> "",
   message |-> "git archive failed"]

\* ---------------------------------------------------------- pure functions

\* hashlib.sha1(application_name).hexdigest()[:5], tabulated for AppNames.
Sha1Hex5(application_name) ==
  CASE application_name = "demo-app"               -> "eda33"
    [] application_name = "digitalmarketplace-api" -> "4910e"

\* Mutant: the application prefix is left out of the identifier.
_environment_name_NoPrefix(application_name, environment_name) ==
  environment_name

\* BeanstalkClient._environment_name
_environment_name(application_name, environment_name) ==
  Sha1Hex5(application_name) \o "-" \o environment_name

\* Mutant: the branch name is used as the environment name.
BranchEnvironmentName_NoPrefix(branch) == branch

\* 'dev-{}'.format(branch) of the two branch-environment methods.
BranchEnvironmentName(branch) == "dev-" \o branch

\* Mutant: the hash suffix is never appended.
FinalVersionLabel_NoSuffix(version_label, with_sha, sha) == version_label

\* '{}-{}'.format(version_label, sha) when with_sha, else the label unchanged.
FinalVersionLabel(version_label, with_sha, sha) ==
  IF with_sha THEN version_label \o "-" \o sha ELSE version_label

\* The packaged artifact's path, as a sequence of path components.
PackagePath(sha) == <<"tmp", "deploy", sha \o ".zip">>

\* os.path.basename
Basename(path) == path[Len(path)]

\* The location S3Client.create_bucket asks for.
BucketLocation(rgn) ==
  IF Len(rgn) >= 2 /\ SubSeq(rgn, 1, 2) = "eu" THEN "EU" ELSE ""

\* Mutant: the loop runs production first.
BootstrapEnvironments_Reversed == <<"production", "staging">>

\* The environments bootstrap creates, in the order of its loop.
BootstrapEnvironments == <<"staging", "production">>

\* Mutant: create_or_update_environment catches every exception.
CreateOrUpdateExcept_CatchAll == "Exception"

\* Mutant: create_environment failures are caught in every operation.
ExceptClause_CatchAll(opname) == "Exception"

\* The class named by create_or_update_environment's except clause.
CreateOrUpdateExcept == "SomeException"

\* The except clause around create_environment, per operation: only
\* create_or_update_environment (deploy_to_branch_environment) has one.
ExceptClause(opname) ==
  IF opname = "deploy_to_branch_environment" THEN CreateOrUpdateExcept ELSE None

\* Mutant: every S3CreateError is swallowed.
CreateBucketSwallows_AnyCreateError(err) == IsInstance(err.cls, "S3CreateError")

\* S3Client.create_bucket: the S3CreateError it swallows.
CreateBucketSwallows(err) ==
  /\ IsInstance(err.cls, "S3CreateError")
  /\ ~("BucketAlreadyOwnedByYou" # err.code)

\* ------------------------------------------------------------------ state

VARIABLES
  region,            \* Client(region)
  application_name,  \* Client.application_name
  buckets,           \* S3: the caller's buckets
  objects,           \* S3: <<bucket, key>> of the uploaded artifacts
  applications,      \* Beanstalk: application names
  versions,          \* Beanstalk: [app, label, bucket, key] registered
  environments,      \* Beanstalk: resolved identifier -> deployed label
  op,                \* the running (or last) operation and its arguments
  pc,                \* the external call the operation is about to make
  local,             \* the operation's local variables
  calls,             \* the external calls of this operation, in order
  raised,            \* the exception that left the operation, or NoError
  retval,            \* what the operation returned
  cli_cmd,           \* the command main() was run with, or None
  exit_status,       \* the process exit status of that run
  stderr,            \* what that run wrote to the error stream
  nOps               \* operations started so far

provider == <<buckets, objects, applications, versions, environments>>
client == <<region, application_name>>
cli == <<cli_cmd, exit_status, stderr>>
vars == <<region, application_name, buckets, objects, applications, versions,
          environments, op, pc, local, calls, raised, retval, cli_cmd,
          exit_status, stderr, nOps>>

NoOp == [name |-> None, branch |-> "", version_label |-> "", environment_name |-> ""]

NoLocal ==
  [environment_name |-> "", version_label |-> "", with_sha |-> FALSE,
   description |-> "", sha |-> "", package_path |-> <<>>,
   s3_bucket |-> "", s3_key |-> "", env_idx |-> 0]

Call(api) ==
  [api |-> api, app |-> "", env |-> "", id |-> "", label |-> "", bucket |-> "",
   key |-> "", location |-> "", description |-> "", sha |-> "",
   err |-> NoError]

Init ==
  /\ region \in Regions
  /\ application_name \in AppNames
  /\ buckets = {}
  /\ objects = {}
  /\ applications = {}
  /\ versions = {}
  /\ environments = << >>
  /\ op = NoOp
  /\ pc = "idle"
  /\ local = NoLocal
  /\ calls = << >>
  /\ raised = NoError
  /\ retval = None
  /\ cli_cmd = None
  /\ exit_status = 0
  /\ stderr = ""
  /\ nOps = 0

\* ----------------------------------------------------- provider responses
\* What each external call can answer in the current provider state:
\* NoError for success, otherwise the exception it raises.

S3CreateBucketReplies(name) ==
  IF name \in buckets
  THEN {NoError, BucketAlreadyOwnedByYou, ProviderError}
  ELSE {NoError, BucketAlreadyExists, ProviderError}

S3GetBucketReplies(name) ==
  IF name \in buckets THEN {NoError, ProviderError} ELSE {NoSuchBucket}

S3SetContentsReplies == {NoError, ProviderError}

CreateApplicationReplies(app) ==
  IF app \in applications THEN {ApplicationAlreadyExists} ELSE {NoError, ProviderError}

CreateApplicationVersionReplies(app, label) ==
  IF app \notin applications THEN {ProviderError}
  ELSE IF \E v \in versions : v.app = app /\ v.label = label
       THEN {VersionAlreadyExists}
       ELSE {NoError, ProviderError}

CreateEnvironmentReplies(id) ==
  IF id \in DOMAIN environments THEN {EnvironmentAlreadyExists} ELSE {NoError, ProviderError}

UpdateEnvironmentReplies(id) ==
  IF id \in DOMAIN environments THEN {NoError, ProviderError} ELSE {NoSuchEnvironment}

TerminateEnvironmentReplies(id) ==
  IF id \in DOMAIN environments THEN {NoError, ProviderError} ELSE {NoSuchEnvironment}

\* ------------------------------------------------------- Client operations

Terminal == {"idle", "returned", "raised"}

\* A new call of a Client method starts with an empty call record.
Start(o, l, first) ==
  /\ nOps' = nOps + 1
  /\ op' = o
  /\ local' = l
  /\ pc' = first
  /\ calls' = << >>
  /\ raised' = NoError
  /\ retval' = None
  /\ cli_cmd' = None
  /\ exit_status' = 0
  /\ stderr' = ""
  /\ UNCHANGED <<client, provider>>

\* Client.bootstrap
Bootstrap ==
  /\ pc \in Terminal
  /\ nOps < MaxOps
  /\ Start([NoOp EXCEPT !.name = "bootstrap"], NoLocal, "s3.create_bucket")

\* Client.create_version(version_label, with_sha, description)
CreateVersion ==
  /\ pc \in Terminal
  /\ nOps < MaxOps
  /\ \E vl \in VersionLabels, ws \in BOOLEAN :
    Start([NoOp EXCEPT !.name = "create_version", !.version_label = vl],
          [NoLocal EXCEPT !.version_label = vl, !.with_sha = ws],
          "git.create_package")

\* Client.deploy_to_branch_environment(branch)
DeployToBranchEnvironment ==
  /\ pc \in Terminal
  /\ nOps < MaxOps
  /\ \E b \in Branches :
    Start([NoOp EXCEPT !.name = "deploy_to_branch_environment", !.branch = b],
          [NoLocal EXCEPT !.environment_name = BranchEnvironmentName(b),
                          !.version_label = BranchEnvironmentName(b),
                          !.with_sha = TRUE],
          "git.create_package")

\* Client.terminate_branch_environment(branch)
TerminateBranchEnvironment ==
  /\ pc \in Terminal
  /\ nOps < MaxOps
  /\ \E b \in Branches :
    Start([NoOp EXCEPT !.name = "terminate_branch_environment", !.branch = b],
          [NoLocal EXCEPT !.environment_name = BranchEnvironmentName(b)],
          "beanstalk.terminate_environment")

\* Mutant: deploy goes through create_environment.
DeployFirstCall_Create == "beanstalk.create_environment"

\* The first call Client.deploy makes.
DeployFirstCall == "beanstalk.update_environment"

\* Client.deploy(version_label, environment_name)
Deploy ==
  /\ pc \in Terminal
  /\ nOps < MaxOps
  /\ \E vl \in VersionLabels \cup {v.label : v \in versions},
     e \in {"staging", "production"} \cup {BranchEnvironmentName(b) : b \in Branches} :
    Start([NoOp EXCEPT !.name = "deploy", !.version_label = vl, !.environment_name = e],
          [NoLocal EXCEPT !.version_label = vl, !.environment_name = e],
          DeployFirstCall)

\* ----------------------------------------------------------- external calls

\* An exception nothing catches leaves the operation.
Propagate(err) ==
  /\ pc' = "raised"
  /\ raised' = err

\* S3Client.create_bucket, called by bootstrap.
S3CreateBucket ==
  /\ pc = "s3.create_bucket"
  /\ \E r \in S3CreateBucketReplies(application_name) :
       /\ calls' = Append(calls, [Call("s3.create_bucket") EXCEPT
                                    !.bucket = application_name,
                                    !.location = BucketLocation(region),
                                    !.err = r])
       /\ buckets' = IF r = NoError THEN buckets \cup {application_name} ELSE buckets
       /\ IF r = NoError \/ CreateBucketSwallows(r)
          THEN /\ pc' = "beanstalk.create_application"
               /\ UNCHANGED raised
          ELSE Propagate(r)
  /\ UNCHANGED <<client, objects, applications, versions, environments, op,
                 local, retval, cli, nOps>>

\* BeanstalkClient.create_application, then the arguments of bootstrap's
\* create_version call.
BeanstalkCreateApplication ==
  /\ pc = "beanstalk.create_application"
  /\ \E r \in CreateApplicationReplies(application_name) :
       /\ calls' = Append(calls, [Call("beanstalk.create_application") EXCEPT
                                    !.app = application_name, !.err = r])
       /\ IF r = NoError
          THEN /\ applications' = applications \cup {application_name}
               /\ local' = [local EXCEPT
                              !.version_label = "initial",
                              !.with_sha = FALSE,
                              !.description = "Initial code version for bootstrap"]
               /\ pc' = "git.create_package"
               /\ UNCHANGED raised
          ELSE /\ Propagate(r)
               /\ UNCHANGED <<applications, local>>
  /\ UNCHANGED <<client, buckets, objects, versions, environments, op, retval,
                 cli, nOps>>

\* create_version: git.create_package()
GitCreatePackage ==
  /\ pc = "git.create_package"
  /\ \E r \in {NoError, PackagingError}, h \in Shas :
       /\ calls' = Append(calls, [Call("git.create_package") EXCEPT
                                    !.sha = IF r = NoError THEN h ELSE "",
                                    !.err = r])
       /\ IF r = NoError
          THEN /\ local' = [local EXCEPT !.sha = h, !.package_path = PackagePath(h)]
               /\ pc' = "s3.get_bucket"
               /\ UNCHANGED raised
          ELSE /\ Propagate(r)
               /\ UNCHANGED local
  /\ UNCHANGED <<client, provider, op, retval, cli, nOps>>

\* S3Client.upload_package: get_bucket
S3GetBucket ==
  /\ pc = "s3.get_bucket"
  /\ \E r \in S3GetBucketReplies(application_name) :
       /\ calls' = Append(calls, [Call("s3.get_bucket") EXCEPT
                                    !.bucket = application_name, !.err = r])
       /\ IF r = NoError
          THEN /\ pc' = "s3.set_contents"
               /\ UNCHANGED raised
          ELSE Propagate(r)
  /\ UNCHANGED <<client, provider, op, local, retval, cli, nOps>>

\* S3Client.upload_package: key.set_contents_from_filename and the return;
\* then create_version's label suffix.
S3SetContents ==
  /\ pc = "s3.set_contents"
  /\ \E r \in S3SetContentsReplies :
       LET key == Basename(local.package_path) IN
       /\ calls' = Append(calls, [Call("s3.set_contents") EXCEPT
                                    !.bucket = application_name, !.key = key,
                                    !.err = r])
       /\ IF r = NoError
          THEN /\ objects' = objects \cup {<<application_name, key>>}
               /\ local' = [local EXCEPT
                              !.s3_bucket = application_name,
                              !.s3_key = key,
                              !.version_label =
                                 FinalVersionLabel(local.version_label,
                                                   local.with_sha, local.sha)]
               /\ pc' = "beanstalk.create_application_version"
               /\ UNCHANGED raised
          ELSE /\ Propagate(r)
               /\ UNCHANGED <<objects, local>>
  /\ UNCHANGED <<client, buckets, applications, versions, environments, op,
                 retval, cli, nOps>>

\* BeanstalkClient.create_application_version and create_version's return
\* into its caller.
BeanstalkCreateApplicationVersion ==
  /\ pc = "beanstalk.create_application_version"
  /\ \E r \in CreateApplicationVersionReplies(application_name, local.version_label) :
       /\ calls' = Append(calls, [Call("beanstalk.create_application_version") EXCEPT
                                    !.app = application_name,
                                    !.label = local.version_label,
                                    !.bucket = local.s3_bucket,
                                    !.key = local.s3_key,
                                    !.description = local.description,
                                    !.err = r])
       /\ IF r = NoError
          THEN /\ versions' = versions \cup
                    {[app |-> application_name, label |-> local.version_label,
                      bucket |-> local.s3_bucket, key |-> local.s3_key]}
               /\ UNCHANGED raised
               /\ CASE op.name = "create_version" ->
                         /\ retval' = local.version_label
                         /\ pc' = "returned"
                         /\ UNCHANGED local
                    [] op.name = "bootstrap" ->
                         /\ local' = [local EXCEPT
                                        !.env_idx = 1,
                                        !.environment_name = BootstrapEnvironments[1]]
                         /\ pc' = "beanstalk.create_environment"
                         /\ UNCHANGED retval
                    [] OTHER ->
                         /\ pc' = "beanstalk.create_environment"
                         /\ UNCHANGED <<local, retval>>
          ELSE /\ Propagate(r)
               /\ UNCHANGED <<versions, local, retval>>
  /\ UNCHANGED <<client, buckets, objects, applications, environments, op, cli,
                 nOps>>

\* BeanstalkClient.create_environment, from bootstrap's loop or from
\* create_or_update_environment (whose except clause may divert to update).
BeanstalkCreateEnvironment ==
  /\ pc = "beanstalk.create_environment"
  /\ LET id == _environment_name(application_name, local.environment_name) IN
     \E r \in CreateEnvironmentReplies(id) :
       /\ calls' = Append(calls, [Call("beanstalk.create_environment") EXCEPT
                                    !.app = application_name,
                                    !.env = local.environment_name,
                                    !.id = id,
                                    !.label = local.version_label,
                                    !.err = r])
       /\ IF r = NoError
          THEN /\ environments' = (id :> local.version_label) @@ environments
               /\ UNCHANGED raised
               /\ IF op.name = "bootstrap" /\ local.env_idx < Len(BootstrapEnvironments)
                  THEN /\ local' = [local EXCEPT
                                      !.env_idx = local.env_idx + 1,
                                      !.environment_name =
                                         BootstrapEnvironments[local.env_idx + 1]]
                       /\ pc' = "beanstalk.create_environment"
                  ELSE /\ pc' = "returned"
                       /\ UNCHANGED local
          ELSE /\ UNCHANGED <<environments, local>>
               /\ IF ExceptClause(op.name) # None /\ IsInstance(r.cls, ExceptClause(op.name))
                  THEN /\ pc' = "beanstalk.update_environment"
                       /\ UNCHANGED raised
                  ELSE Propagate(r)
  /\ UNCHANGED <<client, buckets, objects, applications, versions, op, retval,
                 cli, nOps>>

\* BeanstalkClient.update_environment
BeanstalkUpdateEnvironment ==
  /\ pc = "beanstalk.update_environment"
  /\ LET id == _environment_name(application_name, local.environment_name) IN
     \E r \in UpdateEnvironmentReplies(id) :
       /\ calls' = Append(calls, [Call("beanstalk.update_environment") EXCEPT
                                    !.env = local.environment_name,
                                    !.id = id,
                                    !.label = local.version_label,
                                    !.err = r])
       /\ IF r = NoError
          THEN /\ environments' = [environments EXCEPT ![id] = local.version_label]
               /\ pc' = "returned"
               /\ UNCHANGED raised
          ELSE /\ Propagate(r)
               /\ UNCHANGED environments
  /\ UNCHANGED <<client, buckets, objects, applications, versions, op, local,
                 retval, cli, nOps>>

\* BeanstalkClient.terminate_environment
BeanstalkTerminateEnvironment ==
  /\ pc = "beanstalk.terminate_environment"
  /\ LET id == _environment_name(application_name, local.environment_name) IN
     \E r \in TerminateEnvironmentReplies(id) :
       /\ calls' = Append(calls, [Call("beanstalk.terminate_environment") EXCEPT
                                    !.env = local.environment_name,
                                    !.id = id,
                                    !.err = r])
       /\ IF r = NoError
          THEN /\ environments' =
                    [i \in DOMAIN environments \ {id} |-> environments[i]]
               /\ pc' = "returned"
               /\ UNCHANGED raised
          ELSE /\ Propagate(r)
               /\ UNCHANGED environments
  /\ UNCHANGED <<client, buckets, objects, applications, versions, op, local,
                 retval, cli, nOps>>

\* ------------------------------------------------------- command surface

\* The names bound in the namespace of module aws (aws.py, whole file).
AwsModuleAttrs ==
  {"os", "hashlib", "beanstalk", "s3", "Key", "S3CreateError", "git",
   "Client", "S3Client", "SomeException", "DEFAULT_SOLUTION_STACK",
   "BeanstalkClient"}

\* The commands main() registers.
Commands ==
  {"bootstrap", "create-version", "deploy-to-branch-environment",
   "terminate-branch-environment", "deploy-to-staging", "deploy-to-production"}

BranchCommands == {"deploy-to-branch-environment", "terminate-branch-environment"}

AttributeError(name) ==
  [cls |-> "AttributeError", code |-> "",
   message |-> "'module' object has no attribute '" \o name \o "'"]

\* Evaluating aws.<name>: NoError when the module binds it.
ModuleGetAttr(attrs, name) ==
  IF name \in attrs THEN NoError ELSE AttributeError(name)

\* What an exception no handler caught leaves on the error stream.
Traceback(err) ==
  "Traceback (most recent call last): " \o err.cls \o ": " \o err.message

\* cli.main(): parser.dispatch() runs the command function, which (after
\* git.get_current_branch() when no --branch was given) evaluates
\* aws.get_client; an exception then reaches `except aws.AWSError`, whose
\* class expression is evaluated before the match.  aws.py binds neither
\* name, so no command reaches a Client method.
CliMain ==
  /\ pc \in Terminal
  /\ nOps < MaxOps
  /\ \E c \in Commands, b \in Branches \cup {None}, branchKnown \in BOOLEAN :
       LET inDispatch ==
             IF c \in BranchCommands /\ b = None /\ ~branchKnown
             THEN PackagingError
             ELSE ModuleGetAttr(AwsModuleAttrs, "get_client")
           handler == ModuleGetAttr(AwsModuleAttrs, "AWSError")
           caught == handler = NoError /\ IsInstance(inDispatch.cls, "AWSError")
           uncaught == IF handler # NoError THEN handler ELSE inDispatch
       IN
       /\ inDispatch # NoError
       /\ cli_cmd' = c
       /\ exit_status' = 1
       /\ stderr' = IF caught THEN inDispatch.message ELSE Traceback(uncaught)
  /\ nOps' = nOps + 1
  /\ op' = NoOp
  /\ local' = NoLocal
  /\ pc' = "idle"
  /\ calls' = << >>
  /\ raised' = NoError
  /\ retval' = None
  /\ UNCHANGED <<client, provider>>

\* ------------------------------------------------------------ specification

Next ==
  \/ Bootstrap
  \/ CreateVersion
  \/ DeployToBranchEnvironment
  \/ TerminateBranchEnvironment
  \/ Deploy
  \/ S3CreateBucket
  \/ BeanstalkCreateApplication
  \/ GitCreatePackage
  \/ S3GetBucket
  \/ S3SetContents
  \/ BeanstalkCreateApplicationVersion
  \/ BeanstalkCreateEnvironment
  \/ BeanstalkUpdateEnvironment
  \/ BeanstalkTerminateEnvironment
  \/ CliMain

Spec == Init /\ [][Next]_vars

\* ------------------------------------------------------------- observations

Done == pc \in {"returned", "raised"}

CallsOf(api) == {i \in DOMAIN calls : calls[i].api = api}

EnvironmentApis ==
  {"beanstalk.create_environment", "beanstalk.update_environment",
   "beanstalk.terminate_environment"}

\* The api names of the calls made so far, in order.
ApiTrace == [i \in DOMAIN calls |-> calls[i].api]

IsPrefix(s, t) == Len(s) <= Len(t) /\ \A i \in DOMAIN s : s[i] = t[i]

\* ----------------------------------------------------------------- claims

\* C1: in create_or_update_environment, whenever create-environment fails
\* because the environment already exists, update-environment is called
\* exactly once, for the same resolved identifier and version label, and the
\* operation then completes without raising (when that update succeeds).
C1_AlreadyExistsFallsBackToUpdate ==
  \A i \in DOMAIN calls :
    ( /\ op.name = "deploy_to_branch_environment"
      /\ Done
      /\ calls[i].api = "beanstalk.create_environment"
      /\ calls[i].err = EnvironmentAlreadyExists )
    => /\ Cardinality(CallsOf("beanstalk.update_environment")) = 1
       /\ \A j \in CallsOf("beanstalk.update_environment") :
            /\ calls[j].id = calls[i].id
            /\ calls[j].label = calls[i].label
            /\ (calls[j].err = NoError => pc = "returned")

\* C2: in create_or_update_environment, when create-environment fails with
\* any error other than "environment already exists", update-environment is
\* never called in that operation and the same error reaches the caller.
C2_OtherCreateFailurePropagates ==
  \A i \in DOMAIN calls :
    ( /\ op.name = "deploy_to_branch_environment"
      /\ calls[i].api = "beanstalk.create_environment"
      /\ calls[i].err # NoError
      /\ calls[i].err # EnvironmentAlreadyExists )
    => /\ CallsOf("beanstalk.update_environment") = {}
       /\ i = Len(calls)
       /\ pc = "raised"
       /\ raised = calls[i].err

C2_Witness ==
  /\ op.name = "deploy_to_branch_environment"
  /\ pc = "raised"
  /\ Len(calls) > 0
  /\ calls[Len(calls)].api = "beanstalk.create_environment"
  /\ calls[Len(calls)].err = ProviderError
  /\ raised = ProviderError

\* C3: bootstrap issues its external calls in the order create bucket,
\* create application, package, upload, register version "initial",
\* create environment "staging", create environment "production", each at
\* most once; both environments get the registered label; and a failure of
\* the production step ends the operation without another staging call.
BootstrapOrder ==
  <<"s3.create_bucket", "beanstalk.create_application", "git.create_package",
    "s3.get_bucket", "s3.set_contents", "beanstalk.create_application_version",
    "beanstalk.create_environment", "beanstalk.create_environment">>

C3_BootstrapSequence ==
  op.name = "bootstrap" =>
    /\ IsPrefix(ApiTrace, BootstrapOrder)
    /\ \A i \in DOMAIN calls :
         /\ (i < Len(calls) =>
               \/ calls[i].err = NoError
               \/ (i = 1 /\ calls[i].err = BucketAlreadyOwnedByYou))
         /\ (i = 6 => calls[i].label = "initial")
         /\ (i = 7 => calls[i].env = "staging" /\ calls[i].label = calls[6].label)
         /\ (i = 8 => calls[i].env = "production" /\ calls[i].label = calls[6].label)
    /\ (pc = "returned" => Len(calls) = Len(BootstrapOrder))
    /\ (pc = "raised" => Len(calls) > 0 /\ raised = calls[Len(calls)].err
                                       /\ raised # NoError)

C3_Witness ==
  /\ op.name = "bootstrap"
  /\ pc = "raised"
  /\ Len(calls) = 8
  /\ calls[7].env = "staging" /\ calls[7].err = NoError
  /\ calls[8].env = "production" /\ calls[8].err = ProviderError

\* C4: create_version returns exactly the label it registered; with
\* with_sha that label is versionLabel-<hash>, the hash being the one the
\* packaging step reported in that call, and without it the label is
\* versionLabel unchanged; the version is registered only after the artifact
\* was packaged and uploaded, against the bucket and key of that upload.
CreateVersionArgument ==
  CASE op.name = "create_version" -> op.version_label
    [] op.name = "bootstrap" -> "initial"
    [] op.name = "deploy_to_branch_environment" -> "dev-" \o op.branch

C4_CreateVersionLabel ==
  /\ \A i \in CallsOf("beanstalk.create_application_version") :
       /\ i > 3
       /\ calls[i - 3].api = "git.create_package" /\ calls[i - 3].err = NoError
       /\ calls[i - 1].api = "s3.set_contents" /\ calls[i - 1].err = NoError
       /\ calls[i].bucket = calls[i - 1].bucket
       /\ calls[i].key = calls[i - 1].key
       /\ calls[i].label = IF local.with_sha
                          THEN CreateVersionArgument \o "-" \o calls[i - 3].sha
                          ELSE CreateVersionArgument
  /\ (op.name = "create_version" /\ pc = "returned") =>
       /\ Len(calls) > 0
       /\ calls[Len(calls)].api = "beanstalk.create_application_version"
       /\ calls[Len(calls)].err = NoError
       /\ retval = calls[Len(calls)].label
       /\ [app |-> application_name, label |-> retval,
           bucket |-> calls[Len(calls)].bucket, key |-> calls[Len(calls)].key]
            \in versions

C4_Witness ==
  /\ op.name = "create_version"
  /\ pc = "returned"
  /\ local.with_sha
  /\ retval = op.version_label \o "-" \o local.sha
  /\ \E v \in versions : v.label = retval

\* C5: S3Client.create_bucket treats "bucket already owned by caller" as
\* success, and bootstrap goes on to create-application; any other
\* bucket-creation failure reaches the caller and bootstrap makes no further
\* external call.
C5_EnsureNamespace ==
  (op.name = "bootstrap" /\ Len(calls) >= 1) =>
    LET e == calls[1].err IN
    /\ calls[1].api = "s3.create_bucket"
    /\ calls[1].bucket = application_name
    /\ (e = BucketAlreadyOwnedByYou =>
          IF Len(calls) = 1
          THEN pc = "beanstalk.create_application" /\ raised = NoError
          ELSE calls[2].api = "beanstalk.create_application")
    /\ (e \notin {NoError, BucketAlreadyOwnedByYou} =>
          /\ Len(calls) = 1
          /\ pc = "raised"
          /\ raised = e)

C5_Witness ==
  /\ op.name = "bootstrap"
  /\ Len(calls) >= 2
  /\ calls[1].err = BucketAlreadyOwnedByYou
  /\ calls[2].api = "beanstalk.create_application"

\* C6: for every command, when the dispatched operation fails with a
\* provider error the process prints that error's message to the error
\* stream and exits non-zero; otherwise (the operation did not fail) the
\* process exits with status 0.
C6_ExitStatus ==
  cli_cmd # None =>
    IF raised # NoError
    THEN stderr = raised.message /\ exit_status # 0
    ELSE exit_status = 0

\* C7: deploy is promotion-only: it issues exactly one update-environment
\* call, to the resolved identifier of environmentName with versionLabel,
\* and never a create-environment, packaging, upload or register call,
\* whether or not the environment exists.
C7_DeployPromotionOnly ==
  op.name = "deploy" =>
    /\ \A i \in DOMAIN calls :
         /\ calls[i].api = "beanstalk.update_environment"
         /\ calls[i].id = Sha1Hex5(application_name) \o "-" \o op.environment_name
         /\ calls[i].label = op.version_label
    /\ Len(calls) <= 1
    /\ (Done <=> Len(calls) = 1)

C7_Witness ==
  /\ op.name = "deploy"
  /\ pc = "raised"
  /\ Len(calls) = 1
  /\ calls[1].err = NoSuchEnvironment
  /\ calls[1].id \notin DOMAIN environments

\* C8: deploy_to_branch_environment(branch) names the environment
\* dev-<branch>; a version labelled dev-<branch>-<hash> is packaged, uploaded
\* and registered before any environment call; and when the environment
\* manager does not report the identifier as existing, the operation makes
\* exactly one create-environment call, with the registered label, and no
\* update-environment call.
C8_BranchDeployCreates ==
  op.name = "deploy_to_branch_environment" =>
    /\ local.environment_name = "dev-" \o op.branch
    /\ \A i \in DOMAIN calls :
         calls[i].api \in EnvironmentApis =>
           /\ i = 5
           /\ calls[1].api = "git.create_package" /\ calls[1].err = NoError
           /\ calls[3].api = "s3.set_contents" /\ calls[3].err = NoError
           /\ calls[4].api = "beanstalk.create_application_version"
           /\ calls[4].err = NoError
           /\ calls[4].label = "dev-" \o op.branch \o "-" \o calls[1].sha
           /\ calls[i].label = calls[4].label
           /\ calls[i].env = "dev-" \o op.branch
           /\ calls[i].id = Sha1Hex5(application_name) \o "-dev-" \o op.branch
    /\ \A i \in CallsOf("beanstalk.create_environment") :
         (Done /\ calls[i].err # EnvironmentAlreadyExists) =>
           /\ Cardinality(CallsOf("beanstalk.create_environment")) = 1
           /\ CallsOf("beanstalk.update_environment") = {}
           /\ (calls[i].err = NoError =>
                 /\ pc = "returned"
                 /\ calls[i].id \in DOMAIN environments
                 /\ environments[calls[i].id] = calls[4].label)

C8_Witness ==
  /\ op.name = "deploy_to_branch_environment"
  /\ op.branch = "feature-x"
  /\ pc = "returned"
  /\ Len(calls) = 5
  /\ calls[5].api = "beanstalk.create_environment"
  /\ calls[5].err = NoError
  /\ calls[5].env = "dev-feature-x"

\* C9: in every Client operation a failure of an external call, other than
\* the recognized already-owned / already-exists cases, is neither swallowed
\* nor retried: it is the last call of the operation and it reaches the
\* caller; the effects of the calls that succeeded before it stay in place
\* and no compensating call is made.  Terminating a branch environment that
\* does not exist is such a failure.
Recognized(c) ==
  \/ c.api = "s3.create_bucket" /\ c.err = BucketAlreadyOwnedByYou
  \/ /\ c.api = "beanstalk.create_environment"
     /\ op.name = "deploy_to_branch_environment"
     /\ c.err = EnvironmentAlreadyExists

EffectInPlace(c) ==
  CASE c.api = "s3.create_bucket" -> c.bucket \in buckets
    [] c.api = "beanstalk.create_application" -> c.app \in applications
    [] c.api = "s3.set_contents" -> <<c.bucket, c.key>> \in objects
    [] c.api = "beanstalk.create_application_version" ->
         [app |-> c.app, label |-> c.label, bucket |-> c.bucket, key |-> c.key]
           \in versions
    [] c.api = "beanstalk.create_environment" -> c.id \in DOMAIN environments
    [] OTHER -> TRUE

C9_FailuresPropagate ==
  op.name # None =>
    /\ \A i \in DOMAIN calls :
         /\ (calls[i].err # NoError /\ ~Recognized(calls[i])) =>
              /\ i = Len(calls)
              /\ pc = "raised"
              /\ raised = calls[i].err
         /\ calls[i].err = NoError => EffectInPlace(calls[i])
         /\ (calls[i].api = "beanstalk.terminate_environment"
               => op.name = "terminate_branch_environment")
    /\ (pc = "raised" => Len(calls) > 0 /\ calls[Len(calls)].err = raised
                                       /\ raised # NoError)
    /\ (pc = "returned" => raised = NoError)

C9_Witness ==
  /\ op.name = "terminate_branch_environment"
  /\ pc = "raised"
  /\ Len(calls) = 1
  /\ calls[1].err = NoSuchEnvironment
  /\ raised = NoSuchEnvironment

\* C10: create-, update- and terminate-environment all address the
\* identifier prefix(A) + "-" + E for the application A and the logical
\* name E, so the environment one operation creates is the one a later
\* deploy updates and terminate_branch_environment removes; and for one
\* application two different logical names resolve to different identifiers.
LogicalNames ==
  {"staging", "production"} \cup {BranchEnvironmentName(b) : b \in Branches}

C10_UniformResolution ==
  /\ \A i \in DOMAIN calls :
       calls[i].api \in EnvironmentApis =>
         /\ calls[i].env \in
              CASE op.name = "deploy" -> {op.environment_name}
                [] op.name = "bootstrap" -> {"staging", "production"}
                [] OTHER -> {"dev-" \o op.branch}
         /\ calls[i].id = Sha1Hex5(application_name) \o "-" \o calls[i].env
         /\ (calls[i].err = NoError =>
               IF calls[i].api = "beanstalk.terminate_environment"
               THEN /\ calls[i].env = "dev-" \o op.branch
                    /\ Sha1Hex5(application_name) \o "-dev-" \o op.branch
                         \notin DOMAIN environments
               ELSE (i = Len(calls) =>
                       /\ calls[i].id \in DOMAIN environments
                       /\ environments[calls[i].id] = calls[i].label))
  /\ \A a \in AppNames : \A e1, e2 \in LogicalNames :
       e1 # e2 => _environment_name(a, e1) # _environment_name(a, e2)
  /\ \A id \in DOMAIN environments :
       \E e \in LogicalNames : id = Sha1Hex5(application_name) \o "-" \o e

C10_Witness ==
  /\ op.name = "terminate_branch_environment"
  /\ op.branch = "feature-x"
  /\ pc = "returned"
  /\ calls[1].id = Sha1Hex5(application_name) \o "-dev-feature-x"
  /\ calls[1].id \notin DOMAIN environments
  /\ Sha1Hex5(application_name) \o "-staging" \in DOMAIN environments

====
